---------------------------- MODULE Spec2Model ----------------------------
(***************************************************************************)
(* Model of the cltl-leolani services:                                     *)
(*   - InitService          (src/src/cltl_service/intentions/init.py)      *)
(*   - IdResolutionService  (src/src/cltl_service/idresolution/service.py) *)
(*   - brain helper calls   (cltl/leolani/talk.py)                         *)
(* Each component has its own next-state relation and specification; the   *)
(* variables of the other components stay unchanged.                       *)
(***************************************************************************)
EXTENDS Integers, Sequences, FiniteSets, TLC

VARIABLES
    \* ---- InitService ----
    timeout,      \* self._timeout: NoTimestamp (None) or the greeting timestamp
    clock,        \* wall clock read by timestamp_now(), milliseconds
    published,    \* events InitService published on the bus, oldest first
    nEvents,      \* number of events handed to InitService._process so far
    last,         \* the last _process call: event, timestamp, prior state, output
    \* ---- IdResolutionService ----
    matchCases,   \* self._match_cases
    store,        \* the friend store: identifier -> URI, EmptyUri when unknown
    idPc,         \* position of the topic worker inside _process
    evId,         \* id_annotation.value of the event being processed
    evName,       \* name_annotation.value.text of the event being processed
    nameUri,      \* local name_uri of _same_as
    idUri,        \* local id_uri of the polling loop that runs / ran last
    attempt,      \* local attempt of the polling loop that runs / ran last
    capsule,      \* the list `capsule` of _process
    queries,      \* get_friend calls of this event: [name, id, ci]
    atLastPoll,   \* what the store held at the last poll of _same_as: [name, id]
    idOut,        \* events published on the knowledge topic for this event
    \* ---- talk.py ----
    tPc,          \* position inside the function being called
    tFn,          \* the function being called
    tTriple,      \* its argument `triple`
    tCapsule,     \* local capsule
    tResponse,    \* local response
    tJson,        \* local response_json
    tTry,         \* how the try block ended: none, ok, brain_raised, convert_raised
    tReturn,      \* the returned tuple, once the function has returned
    brainLog,     \* calls received by the brain during this call
    tReply,       \* local reply of the verbalising functions
    tReplierGave, \* what the replier returned in this call, None if not reached
    \* ---- service lifecycle (start / stop of both services) ----
    topicWorker,  \* self._topic_worker of each service: NoWorker or a worker
    created,      \* number of TopicWorker objects each service has created
    running,      \* the workers that are running, as <<service, number>>
    lifeLast,     \* the last start()/stop() call and whether it raised
    \* ---- talk.py: process_triple_spacy_and_reply ----
    sPc,          \* position inside the function
    sTriples,     \* the list `triples` extracted from the text signal
    sIdx,         \* index of the triple the for loop is at
    sResponse,    \* local response
    sJson,        \* local response_json
    sReplyList,   \* local reply_list
    sResponseList,\* local response_list
    sSucceeded    \* per triple whose update and reply succeeded: reply and JSON

initVars == <<timeout, clock, published, nEvents, last>>

idVars == <<matchCases, store, idPc, evId, evName, nameUri, idUri, attempt,
            capsule, queries, atLastPoll, idOut>>

talkVars == <<tPc, tFn, tTriple, tCapsule, tResponse, tJson, tTry, tReturn,
              brainLog, tReply, tReplierGave>>

lifeVars == <<topicWorker, created, running, lifeLast>>

spacyVars == <<sPc, sTriples, sIdx, sResponse, sJson, sReplyList,
               sResponseList, sSucceeded>>

vars == <<initVars, idVars, talkVars, lifeVars, spacyVars>>

----------------------------------------------------------------------------
(* Bounds of the model *)

\* number of events delivered to InitService._process in one behaviour
MaxEvents == 4

\* number of topic workers one service creates in one behaviour
MaxWorkers == 3

\* number of triples extracted from one text signal
MaxTriples == 2

----------------------------------------------------------------------------
(* Strings are sequences of one-character strings. *)

\* str.lower() on the characters that occur in the model's texts
LowerChar(c) ==
    CASE c = "H" -> "h"
      [] c = "A" -> "a"
      [] c = "L" -> "l"
      [] c = "O" -> "o"
      [] c = "S" -> "s"
      [] c = "T" -> "t"
      [] c = "R" -> "r"
      [] c = "W" -> "w"
      [] OTHER   -> c

Lower(s) == [i \in 1..Len(s) |-> LowerChar(s[i])]

\* Python's `k in s` on strings: k occurs in s as a contiguous substring
Contains(s, k) ==
    \E i \in 0..(Len(s) - Len(k)) : SubSeq(s, i + 1, i + Len(k)) = k

KwHallo == <<"h", "a", "l", "l", "o">>

KwStart == <<"s", "t", "a", "r", "t">>

\* utterance texts delivered on the text-in topic
Texts ==
    { <<>>,
      <<"h", "i">>,
      <<"H", "a", "l", "l", "o">>,
      <<"s", "H", "A", "L", "L", "O", "w">>,
      <<"s", "t", "a", "r">>,
      <<"s", "t", "a", "r", "t">>,
      <<"r", "e", "S", "T", "A", "R", "T">>,
      <<"h", "a", "l", "l", "o", " ", "S", "t", "a", "r", "t">> }

\* annotation values of a face mention: None, or a detected face
AnnotationValues == {"None", "Face"}

\* Python truthiness of an annotation value
TruthyValue(v) == v # "None"

\* face payloads: a sequence of mentions, each a sequence of annotation values
FacePayloads ==
    { <<>>,
      << <<>> >>,
      << <<"None">> >>,
      << <<"Face">> >>,
      << <<"None", "None">>, <<"None">> >>,
      << <<"None">>, <<"None", "Face">> >>,
      << <<>>, <<"Face">> >> }

\* topics InitService is configured with
FaceTopic == "face"

TextInTopic == "text_in"

TextOutTopic == "text_out"

DesireTopic == "desire"

\* events the topic worker hands to _process: it listens on the face and
\* text-in topics only
InitEvents ==
    [topic : {FaceTopic}, mentions : FacePayloads, text : {<<>>}]
        \cup [topic : {TextInTopic}, mentions : {<<>>}, text : Texts]

----------------------------------------------------------------------------
(* InitService *)

TIMEOUT == 30000

\* self._timeout = None
NoTimestamp == 0

\* truthiness of self._timeout (None and 0 are falsy)
Truthy(t) == t # NoTimestamp

\* time that passes between two timestamp_now() readings
Deltas == {0, 1, TIMEOUT - 1, TIMEOUT, TIMEOUT + 1}

\* mutant: the keyword is matched without lower-casing the text, and only the
\* first mention of a face event is inspected
FaceOrKeyword_FirstOnly(event) ==
    IF event.topic = FaceTopic
    THEN /\ Len(event.mentions) > 0
         /\ \E a \in 1..Len(event.mentions[1]) :
                TruthyValue(event.mentions[1][a])
    ELSE IF event.topic = TextInTopic
    THEN Contains(event.text, KwHallo)
    ELSE FALSE

FaceOrKeyword(event) ==
    IF event.topic = FaceTopic
    THEN \E m \in 1..Len(event.mentions) :
            \E a \in 1..Len(event.mentions[m]) :
                TruthyValue(event.mentions[m][a])
    ELSE IF event.topic = TextInTopic
    THEN Contains(Lower(event.text), KwHallo)
    ELSE FALSE

StartUtterance(event) ==
    event.topic = TextInTopic /\ Contains(Lower(event.text), KwStart)

\* mutant: the window includes its end point
WithinWindow_Inclusive(timestamp, t) == timestamp - t <= TIMEOUT

\* timestamp - self._timeout < TIMEOUT
WithinWindow(timestamp, t) == timestamp - t < TIMEOUT

\* mutant: the elapsed time is compared as if TIMEOUT were in seconds
Expired_Seconds(timestamp, t) == timestamp - t > TIMEOUT * 1000

\* timestamp - self._timeout > TIMEOUT
Expired(timestamp, t) == timestamp - t > TIMEOUT

\* TextSignalEvent.create(TextSignal.for_scenario(scenario_id, ..., greeting))
GreetingPayload ==
    [type |-> "TextSignalEvent", text |-> "greeting", scenario |-> "scenario"]

\* DesireEvent(["initialized"])
DesirePayload == [type |-> "DesireEvent", desires |-> <<"initialized">>]

Message(topic, payload) == [topic |-> topic, payload |-> payload]

\* mutant: the confirm branch does not require a recorded greeting timestamp
Branch_StartWhileIdle(event, timestamp, t) ==
    IF FaceOrKeyword(event) /\ ~Truthy(t) THEN "greet"
    ELSE IF (~Truthy(t) \/ WithinWindow(timestamp, t)) /\ StartUtterance(event)
    THEN "confirm"
    ELSE IF Truthy(t) /\ Expired(timestamp, t) THEN "reset"
    ELSE "unhandled"

\* mutant: the greet branch does not check that the service is idle
Branch_GreetAlways(event, timestamp, t) ==
    IF FaceOrKeyword(event) THEN "greet"
    ELSE IF Truthy(t) /\ WithinWindow(timestamp, t) /\ StartUtterance(event)
    THEN "confirm"
    ELSE IF Truthy(t) /\ Expired(timestamp, t) THEN "reset"
    ELSE "unhandled"

\* which branch of the if/elif chain of _process an event takes
Branch(event, timestamp, t) ==
    IF FaceOrKeyword(event) /\ ~Truthy(t) THEN "greet"
    ELSE IF Truthy(t) /\ WithinWindow(timestamp, t) /\ StartUtterance(event)
    THEN "confirm"
    ELSE IF Truthy(t) /\ Expired(timestamp, t) THEN "reset"
    ELSE "unhandled"

\* mutant: the greet branch records the timestamp before it builds and
\* publishes the greeting
Process_RecordFirst(event, dt, raises) ==
    LET timestamp == clock + dt
        branch    == Branch(event, timestamp, timeout)
        calls     == branch \in {"greet", "confirm"}
        out       == IF raises THEN <<>>
                     ELSE IF branch = "greet"
                     THEN <<Message(TextOutTopic, GreetingPayload)>>
                     ELSE IF branch = "confirm"
                     THEN <<Message(DesireTopic, DesirePayload)>>
                     ELSE <<>>
    IN  /\ nEvents < MaxEvents
        /\ raises => calls
        /\ clock' = timestamp
        /\ nEvents' = nEvents + 1
        /\ timeout' =
              IF branch = "greet" THEN timestamp
              ELSE IF branch \in {"confirm", "reset"} THEN NoTimestamp
              ELSE timeout
        /\ published' = published \o out
        /\ last' = [event |-> event, timestamp |-> timestamp, pre |-> timeout,
                    out |-> out,
                    outcome |-> IF raises THEN "raised" ELSE "returned"]

\* InitService._process(event), the call as a whole.  `dt` is the time that
\* passed since the previous clock reading; `raises` says whether a
\* collaborator called by the handler (the emissor client, the event bus)
\* raises in this call.
Process(event, dt, raises) ==
    LET timestamp == clock + dt
        branch    == Branch(event, timestamp, timeout)
        calls     == branch \in {"greet", "confirm"}
        out       == IF raises THEN <<>>
                     ELSE IF branch = "greet"
                     THEN <<Message(TextOutTopic, GreetingPayload)>>
                     ELSE IF branch = "confirm"
                     THEN <<Message(DesireTopic, DesirePayload)>>
                     ELSE <<>>
    IN  /\ nEvents < MaxEvents
        /\ raises => calls
        /\ clock' = timestamp
        /\ nEvents' = nEvents + 1
        /\ timeout' =
              IF branch = "greet"
              THEN (IF raises THEN timeout ELSE timestamp)
              ELSE IF branch \in {"confirm", "reset"} THEN NoTimestamp
              ELSE timeout
        /\ published' = published \o out
        /\ last' = [event |-> event, timestamp |-> timestamp, pre |-> timeout,
                    out |-> out,
                    outcome |-> IF raises THEN "raised" ELSE "returned"]

InitServiceInit ==
    /\ timeout = NoTimestamp
    /\ clock = 1
    /\ published = <<>>
    /\ nEvents = 0
    /\ last = [event |-> [topic |-> TextInTopic, mentions |-> <<>>, text |-> <<>>],
               timestamp |-> 1, pre |-> NoTimestamp, out |-> <<>>,
               outcome |-> "returned"]

ProcessEvent ==
    /\ \E event \in InitEvents, dt \in Deltas, raises \in BOOLEAN :
          Process(event, dt, raises)
    /\ UNCHANGED <<idVars, talkVars, lifeVars, spacyVars>>

----------------------------------------------------------------------------
(* IdResolutionService *)

\* while not id_uri and attempt < 50
MaxAttempts == 50

\* a URI is the sequence of its '/'-separated parts, each a string; the falsy
\* URI (None) that get_friend returns for an unknown identifier is empty
EmptyUri == <<>>

Uri(last_part) == << <<"w">>, last_part >>

Uris == { Uri(<<"a", "b">>), Uri(<<"A", "b", "_", "c">>) }

\* identifiers: recognized names and vector ids
Idents == { <<"A", "b">>, <<"a", "b">>, <<"c">> }

IsLetter(c) == c \in {"a", "b", "c", "A", "B", "C"}

UpperChar(c) ==
    CASE c = "a" -> "A"
      [] c = "b" -> "B"
      [] c = "c" -> "C"
      [] OTHER   -> c

\* str.title(): a letter that follows a non-letter (or starts the string) is
\* upper-cased, every other letter is lower-cased
Title(s) ==
    [i \in 1..Len(s) |->
        IF i = 1 \/ ~IsLetter(s[i - 1]) THEN UpperChar(s[i]) ELSE LowerChar(s[i])]

\* str.startswith
StartsWith(s, k) == Len(k) <= Len(s) /\ SubSeq(s, 1, Len(k)) = k

\* uri.split('/')[-1]
LastPart(uri) == uri[Len(uri)]

\* '/'.join(uri_parts[:-1]) + '/' + part
WithLastPart(uri, part) == SubSeq(uri, 1, Len(uri) - 1) \o <<part>>

SameAsPredicate == "http://www.w3.org/2002/07/owl#sameAs"

\* None, as the result of _same_as / _case_insensitive_same_as
NoCapsule == [type |-> "None"]

Capsule(name, subject_uri, object_uri) ==
    [type      |-> "capsule",
     chat      |-> "scenario",
     turn      |-> "signal",
     subject   |-> [label |-> name, uri |-> subject_uri],
     predicate |-> [uri |-> SameAsPredicate],
     object    |-> [label |-> name, uri |-> object_uri]]

\* self._friend_store.get_friend(key)[0]
GetFriend(key) == store[key]

\* mutant: the loop gives up after the first attempt
PollAgain_Once(id_uri, n) == id_uri = EmptyUri /\ n < 1

\* mutant: the loop has no attempt limit
PollAgain_Unbounded(id_uri, n) == id_uri = EmptyUri

\* the loop condition: while not id_uri and attempt < 50
PollAgain(id_uri, n) == id_uri = EmptyUri /\ n < MaxAttempts

\* mutant: the URIs are not compared
SameAsResult_NoCompare(name, id_uri, name_uri) ==
    IF id_uri = EmptyUri \/ name_uri = EmptyUri
    THEN NoCapsule
    ELSE Capsule(name, id_uri, name_uri)

\* what _same_as returns after the loop (lines 99-122)
SameAsResult(name, id_uri, name_uri) ==
    IF id_uri = EmptyUri \/ name_uri = EmptyUri \/ name_uri = id_uri
    THEN NoCapsule
    ELSE Capsule(name, id_uri, name_uri)

\* mutant: the prefix test compares the strings as they are
CaseInsensitiveResult_CaseSensitive(name, id_uri) ==
    IF id_uri = EmptyUri
    THEN NoCapsule
    ELSE IF StartsWith(LastPart(id_uri), name)
    THEN NoCapsule
    ELSE Capsule(name,
                 WithLastPart(id_uri, Title(LastPart(id_uri))),
                 WithLastPart(id_uri, Lower(LastPart(id_uri))))

\* what _case_insensitive_same_as returns after the loop (lines 134-164)
CaseInsensitiveResult(name, id_uri) ==
    IF id_uri = EmptyUri
    THEN NoCapsule
    ELSE IF StartsWith(Lower(LastPart(id_uri)), Lower(name))
    THEN NoCapsule
    ELSE Capsule(name,
                 WithLastPart(id_uri, Title(LastPart(id_uri))),
                 WithLastPart(id_uri, Lower(LastPart(id_uri))))

\* mutant: the None entries are not dropped
FilterNone_Keep(list) == list

\* list(filter(None, capsule))
FilterNone(list) == SelectSeq(list, LAMBDA c : c # NoCapsule)

NoQueries == [name |-> 0, id |-> 0, ci |-> 0]

\* mutant: the case-insensitive assertion is computed whatever the setting
MatchCasesEnabled_Always(setting) == TRUE

\* if self._match_cases
MatchCasesEnabled(setting) == setting

\* _process after _same_as has returned `result`: line 72 builds the list,
\* lines 73-74 enter _case_insensitive_same_as when match_cases is set
AfterSameAs(result) ==
    /\ capsule' = <<result>>
    /\ IF MatchCasesEnabled(matchCases)
       THEN idPc' = "ci_poll" /\ idUri' = EmptyUri /\ attempt' = 0
       ELSE idPc' = "publish" /\ UNCHANGED <<idUri, attempt>>

\* the topic worker hands a speaker event to _process; _same_as returns None
\* at once when the id equals the name
BeginProcess(id, name) ==
    /\ idPc \in {"idle", "done"}
    /\ evId' = id /\ evName' = name
    /\ queries' = NoQueries
    /\ idOut' = <<>>
    /\ nameUri' = EmptyUri
    /\ atLastPoll' = [name |-> EmptyUri, id |-> EmptyUri]
    /\ IF id = name
       THEN AfterSameAs(NoCapsule)
       ELSE /\ idPc' = "name_lookup"
            /\ capsule' = <<>>
            /\ idUri' = EmptyUri /\ attempt' = 0
    /\ UNCHANGED <<initVars, talkVars, lifeVars, spacyVars, matchCases, store>>

\* line 88 and line 91: the single look-up of the name, loop initialisation
NameLookup ==
    /\ idPc = "name_lookup"
    /\ nameUri' = GetFriend(evName)
    /\ queries' = [queries EXCEPT !.name = @ + 1]
    /\ idUri' = EmptyUri /\ attempt' = 0
    /\ idPc' = "poll"
    /\ UNCHANGED <<initVars, talkVars, lifeVars, spacyVars, matchCases, store, evId, evName, capsule, atLastPoll, idOut>>

\* one iteration of the loop of _same_as (lines 92-95)
Poll ==
    /\ idPc = "poll"
    /\ PollAgain(idUri, attempt)
    /\ idUri' = GetFriend(evId)
    /\ attempt' = attempt + 1
    /\ queries' = [queries EXCEPT !.id = @ + 1]
    /\ atLastPoll' = [name |-> GetFriend(evName), id |-> GetFriend(evId)]
    /\ UNCHANGED <<initVars, talkVars, lifeVars, spacyVars, matchCases, store, idPc, evId, evName, nameUri, capsule, idOut>>

\* the loop of _same_as has ended: lines 99-122, then back in _process
SameAsReturn ==
    /\ idPc = "poll"
    /\ ~PollAgain(idUri, attempt)
    /\ AfterSameAs(SameAsResult(evName, idUri, nameUri))
    /\ UNCHANGED <<initVars, talkVars, lifeVars, spacyVars, matchCases, store, evId, evName, nameUri, queries,
                   atLastPoll, idOut>>

\* one iteration of the loop of _case_insensitive_same_as (lines 127-130)
CiPoll ==
    /\ idPc = "ci_poll"
    /\ PollAgain(idUri, attempt)
    /\ idUri' = GetFriend(evId)
    /\ attempt' = attempt + 1
    /\ queries' = [queries EXCEPT !.ci = @ + 1]
    /\ UNCHANGED <<initVars, talkVars, lifeVars, spacyVars, matchCases, store, idPc, evId, evName, nameUri, capsule,
                   atLastPoll, idOut>>

\* the loop of _case_insensitive_same_as has ended: lines 134-164 and the
\* append of line 74
CiReturn ==
    /\ idPc = "ci_poll"
    /\ ~PollAgain(idUri, attempt)
    /\ capsule' = Append(capsule, CaseInsensitiveResult(evName, idUri))
    /\ idPc' = "publish"
    /\ UNCHANGED <<initVars, talkVars, lifeVars, spacyVars, matchCases, store, evId, evName, nameUri, idUri, attempt,
                   queries, atLastPoll, idOut>>

\* lines 75-82: drop the None entries, publish when anything is left
Publish ==
    /\ idPc = "publish"
    /\ capsule' = FilterNone(capsule)
    /\ idOut' = IF FilterNone(capsule) # <<>>
                THEN <<Message("knowledge", FilterNone(capsule))>>
                ELSE <<>>
    /\ idPc' = "done"
    /\ UNCHANGED <<initVars, talkVars, lifeVars, spacyVars, matchCases, store, evId, evName, nameUri, idUri, attempt,
                   queries, atLastPoll>>

\* "Storing new ID happens in parallel": another service adds an entry
StoreFriend(key, uri) ==
    /\ store[key] = EmptyUri
    /\ store' = [store EXCEPT ![key] = uri]
    /\ UNCHANGED <<initVars, talkVars, lifeVars, spacyVars, matchCases, idPc, evId, evName, nameUri, idUri, attempt,
                   capsule, queries, atLastPoll, idOut>>

IdResolutionInit ==
    /\ matchCases \in BOOLEAN
    /\ store = [k \in Idents |-> EmptyUri]
    /\ idPc = "idle"
    /\ evId = <<"c">> /\ evName = <<"c">>
    /\ nameUri = EmptyUri /\ idUri = EmptyUri /\ attempt = 0
    /\ capsule = <<>>
    /\ queries = NoQueries
    /\ atLastPoll = [name |-> EmptyUri, id |-> EmptyUri]
    /\ idOut = <<>>

SpeakerEvent == \E id \in Idents, name \in Idents : BeginProcess(id, name)

ParallelStore == \E key \in Idents, uri \in Uris : StoreFriend(key, uri)

----------------------------------------------------------------------------
(* talk.py: posting triples and queries to the brain *)

\* Python's None
PyNone == [type |-> "None"]

TalkFunctions == {"post_a_triple", "post_a_triple_label_and_type", "post_a_query"}

VerbaliseFunctions ==
    {"post_a_triple_and_verbalise_throughts", "post_a_query_and_verbalise_answer"}

QueryFunctions == {"post_a_query", "post_a_query_and_verbalise_answer"}

\* replies of the replier (LenkaReplier.reply_to_statement / reply_to_question);
\* it may also return None
Replies ==
    { [type |-> "reply", text |-> "I did not know that"],
      [type |-> "reply", text |-> ""] }

\* ELOQUENCE, the fallback phrases
Eloquence ==
    { [type |-> "eloquence", text |-> "Interesting"],
      [type |-> "eloquence", text |-> "I see"] }

\* triples handed to the functions
Triples == {"t1", "t2", "t3"}

\* responses of the brain (LongTermMemory.update / query_brain)
Responses ==
    { [type |-> "response", thoughts |-> "none"],
      [type |-> "response", thoughts |-> "gaps"],
      [type |-> "response", thoughts |-> "conflicts"] }

\* the utterance type each function builds its capsule with
UtteranceTypeOf(fn) == IF fn \in QueryFunctions THEN "QUESTION" ELSE "STATEMENT"

\* c_util.triple_to_capsule(triple, utterance_type)
TripleToCapsule(triple, utterance_type) ==
    [type |-> "capsule", triple |-> triple, utterance_type |-> utterance_type]

\* brain_response_to_json(response)
BrainResponseToJson(response) == [type |-> "json", of |-> response]

\* the call each function makes on the brain
BrainCall(fn, c) ==
    IF fn \in QueryFunctions
    THEN [method |-> "query_brain", capsule |-> c, reason_types |-> FALSE,
          create_label |-> FALSE]
    ELSE IF fn = "post_a_triple_label_and_type"
    THEN [method |-> "update", capsule |-> c, reason_types |-> TRUE,
          create_label |-> TRUE]
    ELSE [method |-> "update", capsule |-> c, reason_types |-> FALSE,
          create_label |-> FALSE]

\* mutant: every function returns the JSON response alone
ReturnValue_JsonOnly(fn, c, json) == <<json>>

\* the return statement of each function
ReturnValue(fn, c, json) ==
    IF fn = "post_a_query" THEN <<json>> ELSE <<c, json>>

\* a function is called: locals are initialised and the capsule is built,
\* outside the try block; an error of triple_to_capsule propagates
Call(fn, triple, build_raises) ==
    /\ tPc \in {"idle", "returned", "raised"}
    /\ tFn' = fn /\ tTriple' = triple
    /\ tResponse' = PyNone /\ tJson' = PyNone
    /\ tTry' = "none"
    /\ tReturn' = <<>>
    /\ brainLog' = <<>>
    /\ tReply' = PyNone /\ tReplierGave' = PyNone
    /\ IF build_raises
       THEN tPc' = "raised" /\ tCapsule' = PyNone
       ELSE /\ tPc' = "try"
            /\ tCapsule' = TripleToCapsule(triple, UtteranceTypeOf(fn))
    /\ UNCHANGED <<initVars, idVars, lifeVars, spacyVars, spacyVars>>

\* first statement of the try block: the brain returns a response
BrainReturns(response) ==
    /\ tPc = "try"
    /\ brainLog' = Append(brainLog, BrainCall(tFn, tCapsule))
    /\ tResponse' = response
    /\ tPc' = "convert"
    /\ UNCHANGED <<initVars, idVars, lifeVars, spacyVars, tFn, tTriple, tCapsule, tJson, tTry, tReturn,
                   tReply, tReplierGave>>

\* first statement of the try block: the brain raises, the bare except
\* catches it
BrainRaises ==
    /\ tPc = "try"
    /\ brainLog' = Append(brainLog, BrainCall(tFn, tCapsule))
    /\ tTry' = "brain_raised"
    /\ tPc' = "return"
    /\ UNCHANGED <<initVars, idVars, lifeVars, spacyVars, tFn, tTriple, tCapsule, tResponse, tJson,
                   tReturn,
                   tReply, tReplierGave>>

\* second statement of the try block: the conversion returns
ConvertReturns ==
    /\ tPc = "convert"
    /\ tJson' = BrainResponseToJson(tResponse)
    /\ tTry' = IF tFn \in VerbaliseFunctions THEN tTry ELSE "ok"
    /\ tPc' = IF tFn \in VerbaliseFunctions THEN "reply" ELSE "return"
    /\ UNCHANGED <<initVars, idVars, lifeVars, spacyVars, tFn, tTriple, tCapsule, tResponse, tReturn,
                   brainLog,
                   tReply, tReplierGave>>

\* second statement of the try block: the conversion raises, the bare except
\* catches it
ConvertRaises ==
    /\ tPc = "convert"
    /\ tTry' = "convert_raised"
    /\ tPc' = "return"
    /\ UNCHANGED <<initVars, idVars, lifeVars, spacyVars, tFn, tTriple, tCapsule, tResponse, tJson,
                   tReturn, brainLog,
                   tReply, tReplierGave>>

\* third statement of the try block of the verbalising functions: the
\* replier returns a reply, or None
ReplierReturns(reply) ==
    /\ tPc = "reply"
    /\ tReply' = reply
    /\ tReplierGave' = reply
    /\ tTry' = "ok"
    /\ tPc' = "return"
    /\ UNCHANGED <<initVars, idVars, lifeVars, spacyVars, tFn, tTriple, tCapsule, tResponse,
                   tJson, tReturn, brainLog>>

\* third statement of the try block: the replier raises, the bare except
\* catches it
ReplierRaises ==
    /\ tPc = "reply"
    /\ tTry' = "reply_raised"
    /\ tPc' = "return"
    /\ UNCHANGED <<initVars, idVars, lifeVars, spacyVars, tFn, tTriple, tCapsule, tResponse,
                   tJson, tReturn, brainLog, tReply, tReplierGave>>

\* mutant: no fallback phrase is chosen
ReplyOrFallback_NoFallback(reply, phrase) == reply

\* if reply is None: reply = choice(ELOQUENCE)
ReplyOrFallback(reply, phrase) == IF reply = PyNone THEN phrase ELSE reply

\* the end of a verbalising function: the fallback and the return statement
ReturnReply(phrase) ==
    /\ tPc = "return"
    /\ tFn \in VerbaliseFunctions
    /\ tReply' = ReplyOrFallback(tReply, phrase)
    /\ tReturn' = <<ReplyOrFallback(tReply, phrase)>>
    /\ tPc' = "returned"
    /\ UNCHANGED <<initVars, idVars, lifeVars, spacyVars, tFn, tTriple, tCapsule, tResponse,
                   tJson, tTry, brainLog, tReplierGave>>

\* the return statement
Return ==
    /\ tPc = "return"
    /\ tFn \in TalkFunctions
    /\ tReturn' = ReturnValue(tFn, tCapsule, tJson)
    /\ tPc' = "returned"
    /\ UNCHANGED <<initVars, idVars, lifeVars, spacyVars, tFn, tTriple, tCapsule, tResponse, tJson,
                   tTry, brainLog,
                   tReply, tReplierGave>>

TalkInit ==
    /\ tPc = "idle"
    /\ tFn = "post_a_triple" /\ tTriple = "t1"
    /\ tCapsule = PyNone /\ tResponse = PyNone /\ tJson = PyNone
    /\ tTry = "none"
    /\ tReturn = <<>>
    /\ brainLog = <<>>
    /\ tReply = PyNone /\ tReplierGave = PyNone

CallFunction ==
    \E fn \in TalkFunctions, triple \in Triples, build_raises \in BOOLEAN :
        Call(fn, triple, build_raises)

BrainResponds == \E response \in Responses : BrainReturns(response)

CallVerbalise ==
    \E fn \in VerbaliseFunctions, triple \in Triples, build_raises \in BOOLEAN :
        Call(fn, triple, build_raises)

ReplierResponds == \E reply \in Replies \cup {PyNone} : ReplierReturns(reply)

ChooseAndReturn == \E phrase \in Eloquence : ReturnReply(phrase)

----------------------------------------------------------------------------
(* talk.py: process_triple_spacy_and_reply *)

\* the lists of triples the two spacy extractors yield together
TripleLists == UNION {[1..n -> Triples] : n \in 0..MaxTriples}

\* the for loop moves to the next triple, or ends
NextTriple ==
    /\ sIdx' = sIdx + 1
    /\ sPc' = IF sIdx < Len(sTriples) THEN "update" ELSE "return"

\* lines 295-307: the lists are created, the triples extracted (the list is
\* never None), the loop is entered
SpacyCall(triples) ==
    /\ sPc \in {"idle", "returned"}
    /\ sTriples' = triples
    /\ sIdx' = 1
    /\ sPc' = IF triples = <<>> THEN "return" ELSE "update"
    /\ sResponse' = PyNone /\ sJson' = PyNone
    /\ sReplyList' = <<>> /\ sResponseList' = <<>>
    /\ sSucceeded' = <<>>
    /\ UNCHANGED <<initVars, idVars, talkVars, lifeVars>>

\* line 321: the brain returns a response
SpacyBrainReturns(response) ==
    /\ sPc = "update"
    /\ sResponse' = response
    /\ sPc' = "convert"
    /\ UNCHANGED <<initVars, idVars, talkVars, lifeVars, sTriples, sIdx, sJson,
                   sReplyList, sResponseList, sSucceeded>>

\* line 321: the brain raises; the bare except of line 329 catches it
SpacyBrainRaises ==
    /\ sPc = "update"
    /\ NextTriple
    /\ UNCHANGED <<initVars, idVars, talkVars, lifeVars, sTriples, sResponse,
                   sJson, sReplyList, sResponseList, sSucceeded>>

\* line 322: the conversion returns
SpacyConvertReturns ==
    /\ sPc = "convert"
    /\ sJson' = BrainResponseToJson(sResponse)
    /\ sPc' = "reply"
    /\ UNCHANGED <<initVars, idVars, talkVars, lifeVars, sTriples, sIdx,
                   sResponse, sReplyList, sResponseList, sSucceeded>>

\* line 322: the conversion raises
SpacyConvertRaises ==
    /\ sPc = "convert"
    /\ NextTriple
    /\ UNCHANGED <<initVars, idVars, talkVars, lifeVars, sTriples, sResponse,
                   sJson, sReplyList, sResponseList, sSucceeded>>

\* lines 323-325: the replier returns a reply; then line 324 calls the list
\* response_list as a function, which raises TypeError, so the bare except is
\* entered and the append of line 325 is never executed
SpacyReplierReturns(reply) ==
    /\ sPc = "reply"
    /\ sSucceeded' = Append(sSucceeded,
                            [triple |-> sTriples[sIdx], reply |-> reply,
                             json |-> sJson])
    /\ NextTriple
    /\ UNCHANGED <<initVars, idVars, talkVars, lifeVars, sTriples, sResponse,
                   sJson, sReplyList, sResponseList>>

\* line 323: the replier raises
SpacyReplierRaises ==
    /\ sPc = "reply"
    /\ NextTriple
    /\ UNCHANGED <<initVars, idVars, talkVars, lifeVars, sTriples, sResponse,
                   sJson, sReplyList, sResponseList, sSucceeded>>

\* line 332: return reply_list, response_list
SpacyReturn ==
    /\ sPc = "return"
    /\ sPc' = "returned"
    /\ UNCHANGED <<initVars, idVars, talkVars, lifeVars, sTriples, sIdx,
                   sResponse, sJson, sReplyList, sResponseList, sSucceeded>>

SpacyInit ==
    /\ sPc = "idle"
    /\ sTriples = <<>>
    /\ sIdx = 1
    /\ sResponse = PyNone /\ sJson = PyNone
    /\ sReplyList = <<>> /\ sResponseList = <<>>
    /\ sSucceeded = <<>>

SpacyCallFunction == \E triples \in TripleLists : SpacyCall(triples)

SpacyBrainResponds == \E response \in Responses : SpacyBrainReturns(response)

SpacyReplierResponds ==
    \E reply \in Replies \cup {PyNone} : SpacyReplierReturns(reply)

----------------------------------------------------------------------------
(* start() and stop() of IdResolutionService and InitService: the two       *)
(* classes have the same code                                               *)

Services == {"IdResolutionService", "InitService"}

\* self._topic_worker = None
NoWorker == 0

WorkersOf(svc) == {w \in running : w[1] = svc}

\* start(): a new TopicWorker is created, assigned to self._topic_worker and
\* started; the call returns when the worker runs
Start(svc) ==
    /\ created[svc] < MaxWorkers
    /\ created' = [created EXCEPT ![svc] = @ + 1]
    /\ topicWorker' = [topicWorker EXCEPT ![svc] = created[svc] + 1]
    /\ running' = running \cup {<<svc, created[svc] + 1>>}
    /\ lifeLast' = [svc |-> svc, op |-> "start", raised |-> FALSE,
                    pre |-> topicWorker[svc]]

\* stop(): the guard `if not self._topic_worker: pass` falls through, so
\* self._topic_worker.stop() is evaluated on None and raises AttributeError;
\* otherwise the worker is stopped, awaited and the reference cleared
Stop(svc) ==
    /\ IF topicWorker[svc] = NoWorker
       THEN /\ lifeLast' = [svc |-> svc, op |-> "stop", raised |-> TRUE,
                            pre |-> topicWorker[svc]]
            /\ UNCHANGED <<topicWorker, running>>
       ELSE /\ running' = running \ {<<svc, topicWorker[svc]>>}
            /\ topicWorker' = [topicWorker EXCEPT ![svc] = NoWorker]
            /\ lifeLast' = [svc |-> svc, op |-> "stop", raised |-> FALSE,
                            pre |-> topicWorker[svc]]
    /\ UNCHANGED created

LifeInit ==
    /\ topicWorker = [svc \in Services |-> NoWorker]
    /\ created = [svc \in Services |-> 0]
    /\ running = {}
    /\ lifeLast = [svc |-> "InitService", op |-> "none", raised |-> FALSE,
                   pre |-> NoWorker]

StartService ==
    /\ \E svc \in Services : Start(svc)
    /\ UNCHANGED <<initVars, idVars, talkVars, spacyVars>>

StopService ==
    /\ \E svc \in Services : Stop(svc)
    /\ UNCHANGED <<initVars, idVars, talkVars, spacyVars>>

----------------------------------------------------------------------------
(* Properties of InitService *)

\* texts of the model that contain 'hallo' / 'start' when case is ignored
HalloTexts ==
    { <<"H", "a", "l", "l", "o">>,
      <<"s", "H", "A", "L", "L", "O", "w">>,
      <<"h", "a", "l", "l", "o", " ", "S", "t", "a", "r", "t">> }

StartTexts ==
    { <<"s", "t", "a", "r", "t">>,
      <<"r", "e", "S", "T", "A", "R", "T">>,
      <<"h", "a", "l", "l", "o", " ", "S", "t", "a", "r", "t">> }

IsGreetingCue(e) ==
    \/ /\ e.topic = "face"
       /\ \E m \in DOMAIN e.mentions : \E a \in DOMAIN e.mentions[m] :
             e.mentions[m][a] = "Face"
    \/ e.topic = "text_in" /\ e.text \in HalloTexts

IsStartUtterance(e) == e.topic = "text_in" /\ e.text \in StartTexts

Greetings(log) == {i \in DOMAIN log : log[i].topic = "text_out"}

Desires(log) == {i \in DOMAIN log : log[i].topic = "desire"}

WasIdle == last.pre = 0

Elapsed == last.timestamp - last.pre

\* C1: every _process call that handles a greeting cue (a face event with a
\* truthy annotation value in some mention, or a text-in event containing
\* 'hallo' ignoring case) while the service is idle, and returns, has
\* published exactly one greeting text signal on the text-out topic and
\* nothing on the desire topic, and has recorded the event's processing
\* timestamp as the greeting timestamp (waiting-for-start).
C1_GreetingOnCue ==
    (nEvents > 0 /\ last.outcome = "returned" /\ WasIdle
        /\ IsGreetingCue(last.event))
    => /\ Len(last.out) = 1
       /\ last.out[1].topic = "text_out"
       /\ last.out[1].payload.type = "TextSignalEvent"
       /\ last.out[1].payload.text = "greeting"
       /\ Desires(last.out) = {}
       /\ timeout = last.timestamp
       /\ timeout # 0

\* C1 witness: the second event, an upper-case keyword inside a longer word,
\* was greeted after an earlier greeting had been confirmed or had expired.
C1_Witness ==
    /\ nEvents > 1 /\ last.outcome = "returned" /\ WasIdle
    /\ last.event.topic = "text_in"
    /\ last.event.text = <<"s", "H", "A", "L", "L", "O", "w">>
    /\ Len(last.out) = 1
    /\ Len(published) = 2
    /\ timeout = last.timestamp

\* C2 (the 'only if' part): a desire event is published in a step only if
\* the service was waiting-for-start, the event is a text-in event containing
\* 'start' ignoring case, and strictly less than TIMEOUT elapsed since the
\* greeting timestamp; the step leaves the service idle.
C2_DesireOnlyIf ==
    (nEvents > 0 /\ Desires(last.out) # {})
    => /\ ~WasIdle
       /\ IsStartUtterance(last.event)
       /\ Elapsed < 30000
       /\ last.out = <<[topic |-> "desire",
                        payload |-> [type |-> "DesireEvent",
                                     desires |-> <<"initialized">>]]>>
       /\ timeout = 0

\* C2 as stated: the 'only if' part, and a 'start' utterance received while
\* idle publishes nothing.
C2_AsStated ==
    /\ C2_DesireOnlyIf
    /\ (nEvents > 0 /\ WasIdle /\ IsStartUtterance(last.event))
          => last.out = <<>>

\* C2 as amended: the 'only if' part, and a 'start' utterance received while
\* idle publishes no desire event; it publishes something only when its text
\* also contains 'hallo', and then that is the greeting.
C2_StartWhileIdle ==
    /\ C2_DesireOnlyIf
    /\ (nEvents > 0 /\ WasIdle /\ IsStartUtterance(last.event))
          => /\ Desires(last.out) = {}
             /\ last.out # <<>> => /\ last.event.text \in HalloTexts
                                   /\ Greetings(last.out) = {1}
                                   /\ Len(last.out) = 1

\* C2 witness: a desire event was published for a mixed-case 'start' inside
\* the window, and the service is idle again.
C2_Witness ==
    /\ nEvents > 1
    /\ Desires(last.out) # {}
    /\ last.event.text = <<"r", "e", "S", "T", "A", "R", "T">>
    /\ Elapsed = 29999
    /\ timeout = 0

\* C3: when strictly more than TIMEOUT has elapsed since the greeting, the
\* next event processed, whatever its kind, returns the service to idle and
\* publishes nothing.
C3_ResetAfterTimeout ==
    (nEvents > 0 /\ ~WasIdle /\ Elapsed > 30000)
    => timeout = 0 /\ last.out = <<>>

\* C3 witness: a 'start' utterance processed after the window produced no
\* desire event and reset the service.
C3_Witness ==
    /\ nEvents > 1 /\ ~WasIdle /\ Elapsed > 30000
    /\ IsStartUtterance(last.event)
    /\ Desires(published) = {}
    /\ timeout = 0

\* C9: every desire event in the published log is preceded by a greeting
\* published after the previous desire event (or after creation, for the
\* first one); hence the desire events never outnumber the greetings.
C9_DesirePrecededByGreeting ==
    /\ \A i \in Desires(published) :
          \E j \in Greetings(published) :
              /\ j < i
              /\ \A k \in j..i : k \in Desires(published) => k = i
    /\ Cardinality(Desires(published)) <= Cardinality(Greetings(published))

\* C9 witness: two greeting/desire rounds were completed.
C9_Witness ==
    /\ Cardinality(Desires(published)) = 2
    /\ Cardinality(Greetings(published)) = 2
    /\ published[Len(published)].topic = "desire"

\* C10: while waiting-for-start with less than TIMEOUT elapsed, an event that
\* is not a 'start' utterance (a further greeting cue included) publishes
\* nothing and leaves the greeting timestamp unchanged.
C10_NoRegreetInWindow ==
    (nEvents > 0 /\ ~WasIdle /\ Elapsed < 30000
        /\ ~IsStartUtterance(last.event))
    => /\ last.out = <<>>
       /\ timeout = last.pre

\* C10 witness: a further greeting cue arrived inside the window after time
\* had passed; nothing was published for it and the timestamp was kept.
C10_Witness ==
    /\ nEvents > 1 /\ ~WasIdle /\ Elapsed = 29999
    /\ IsGreetingCue(last.event)
    /\ Len(published) = 1
    /\ timeout = last.pre
    /\ timeout # last.timestamp

\* C15: an event processed exactly TIMEOUT after the greeting timestamp
\* neither confirms nor resets, even if it is a 'start' utterance: nothing is
\* published and the service keeps waiting with the same timestamp.
C15_ExactlyTimeout ==
    (nEvents > 0 /\ ~WasIdle /\ Elapsed = 30000)
    => /\ last.out = <<>>
       /\ timeout = last.pre
       /\ timeout # 0

\* C15 witness: a 'start' utterance was processed exactly 30000 ms after the
\* greeting and was ignored.
C15_Witness ==
    /\ nEvents > 1 /\ ~WasIdle /\ Elapsed = 30000
    /\ IsStartUtterance(last.event)
    /\ Len(published) = 1
    /\ timeout = last.pre

\* C16: when building or publishing the greeting fails while a greeting cue
\* is handled in the idle state, the greeting timestamp is not recorded,
\* nothing is published and the service stays idle; a greeting cue processed
\* next is greeted.
C16_FailedGreetingStaysIdle ==
    /\ []((nEvents > 0 /\ last.outcome = "raised" /\ WasIdle)
            => /\ IsGreetingCue(last.event)
               /\ timeout = 0
               /\ last.out = <<>>)
    /\ [][(nEvents > 0 /\ last.outcome = "raised" /\ WasIdle
              /\ nEvents' = nEvents + 1
              /\ IsGreetingCue(last'.event) /\ last'.outcome = "returned")
            => /\ Len(last'.out) = 1
               /\ last'.out[1].topic = "text_out"
               /\ Len(published') = Len(published) + 1
               /\ timeout' = last'.timestamp]_vars

\* C16 witness: a greeting cue was handled in the idle state, the handler
\* raised, and the service is idle with nothing published.
C16_Witness ==
    /\ nEvents > 0
    /\ last.outcome = "raised" /\ WasIdle
    /\ IsGreetingCue(last.event)
    /\ timeout = 0
    /\ published = <<>>

----------------------------------------------------------------------------
(* Properties of IdResolutionService *)

\* _same_as has returned and its result is the first entry of the list
SameAsReturned == idPc \in {"ci_poll", "publish"}

SameAsValue == capsule[1]

IsAssertion(c) == c.type = "capsule"

\* C4: _same_as returns an assertion if and only if the id differs from the
\* name, the name resolved to a non-empty URI, the id resolved to a non-empty
\* URI and the two URIs differ; the assertion has predicate owl#sameAs, the
\* id's URI as subject URI and the name's URI as object URI.  When the id
\* equals the name it returns nothing and the friend store was not queried.
C4_SameAsIff ==
    SameAsReturned =>
        /\ IsAssertion(SameAsValue) <=>
              /\ evId # evName
              /\ nameUri # <<>>
              /\ atLastPoll.id # <<>>
              /\ nameUri # atLastPoll.id
        /\ IsAssertion(SameAsValue) =>
              /\ SameAsValue.predicate.uri = "http://www.w3.org/2002/07/owl#sameAs"
              /\ SameAsValue.subject.uri = atLastPoll.id
              /\ SameAsValue.subject.uri = store[evId]
              /\ SameAsValue.object.uri = nameUri
              /\ SameAsValue.object.uri = store[evName]
        /\ evId = evName =>
              /\ ~IsAssertion(SameAsValue)
              /\ queries.name = 0 /\ queries.id = 0

\* C4 witness: an assertion was returned after the id was found on a retry.
C4_Witness ==
    /\ SameAsReturned
    /\ IsAssertion(SameAsValue)
    /\ queries.id = 3
    /\ SameAsValue.subject.uri # SameAsValue.object.uri

InLoop == idPc \in {"poll", "ci_poll"}

LoopQueries == IF idPc = "poll" THEN queries.id ELSE queries.ci

\* C5: each polling loop terminates.  It queries the friend store for the id
\* at most 50 times; once a query has returned a non-empty URI the loop makes
\* no further query; a loop left after 50 queries without a URI makes its
\* function return no assertion; and a loop that was entered is left.
C5_PollingTerminates ==
    /\ [](attempt <= 50 /\ queries.id <= 50 /\ queries.ci <= 50
            /\ (InLoop => LoopQueries = attempt))
    /\ [][(InLoop /\ idUri # <<>>) => queries' = queries]_vars
    /\ [][(idPc = "poll" /\ idPc' # "poll" /\ idUri = <<>>)
            => (attempt = 50 /\ capsule'[1] = [type |-> "None"])]_vars
    /\ [][(idPc = "ci_poll" /\ idPc' # "ci_poll" /\ idUri = <<>>)
            => (attempt = 50 /\ capsule'[Len(capsule')] = [type |-> "None"])]_vars
    /\ (idPc = "poll") ~> (idPc # "poll")
    /\ (idPc = "ci_poll") ~> (idPc = "publish")

\* C5 witness: both loops gave up after 50 queries each and nothing was
\* published.
C5_Witness ==
    /\ idPc = "done"
    /\ queries.id = 50 /\ queries.ci = 50
    /\ nameUri # <<>>
    /\ idOut = <<>>

\* C6 as stated: for the name and for the id alike, an identifier that was in
\* the store before the polling attempts were exhausted is resolved to its
\* URI, and an assertion is returned whenever the two resolved URIs differ.
C6_AsStated ==
    (SameAsReturned /\ evId # evName) =>
        /\ atLastPoll.id # <<>> => store[evId] = atLastPoll.id
        /\ atLastPoll.name # <<>> => nameUri = atLastPoll.name
        /\ (atLastPoll.id # <<>> /\ atLastPoll.name # <<>>
              /\ atLastPoll.id # atLastPoll.name) => IsAssertion(SameAsValue)

\* C6 as amended: only the id is polled.  The loop gives up on the id only
\* after 50 queries, and an id found in the store by one of them is resolved
\* to its URI.  The name is looked up exactly once, before the polling, and
\* is resolved only if it was stored by then.  An assertion is returned
\* whenever both were resolved and the URIs differ.
C6_OnlyIdPolled ==
    (SameAsReturned /\ evId # evName) =>
        /\ queries.name = 1
        /\ queries.id >= 1
        /\ atLastPoll.id = <<>> => queries.id = 50
        /\ atLastPoll.id # <<>> => atLastPoll.id = store[evId]
        /\ nameUri # <<>> => nameUri = store[evName]
        /\ (atLastPoll.id # <<>> /\ nameUri # <<>> /\ atLastPoll.id # nameUri)
              => /\ IsAssertion(SameAsValue)
                 /\ SameAsValue.subject.uri = store[evId]
                 /\ SameAsValue.object.uri = store[evName]

\* C6 witness: the id was stored while the loop was polling and was resolved
\* on a late attempt; the name, stored only after its single look-up, was
\* not, and no assertion was returned.
C6_Witness ==
    /\ SameAsReturned /\ evId # evName
    /\ queries.id = 49
    /\ atLastPoll.id # <<>>
    /\ atLastPoll.name # <<>>
    /\ atLastPoll.name # atLastPoll.id
    /\ nameUri = <<>>
    /\ ~IsAssertion(SameAsValue)

TotalQueries == queries.name + queries.id + queries.ci

\* C7: with match_cases false, _case_insensitive_same_as is never evaluated,
\* the published payload holds at most one capsule and the friend store is
\* queried at most 51 times per speaker event; with match_cases true the
\* payload holds at most two capsules and the case-insensitive polling runs
\* for every event, events whose id equals the name included.
C7_MatchCasesOptional ==
    /\ ~matchCases =>
          /\ idPc # "ci_poll"
          /\ queries.ci = 0
          /\ TotalQueries <= 51
          /\ Len(capsule) <= 1
          /\ idOut # <<>> => Len(idOut[1].payload) = 1
    /\ matchCases =>
          /\ Len(idOut) <= 1
          /\ idOut # <<>> => Len(idOut[1].payload) \in {1, 2}
          /\ idPc \in {"publish", "done"} => queries.ci >= 1

\* C7 witness: with match_cases set, an event whose id equals the name was
\* polled for on several attempts and its case-insensitive capsule published.
C7_Witness ==
    /\ matchCases
    /\ idPc = "done"
    /\ evId = evName
    /\ queries.ci = 4 /\ queries.id = 0 /\ queries.name = 0
    /\ idOut # <<>>
    /\ Len(idOut[1].payload) = 1

\* the entries of a list that are assertions, in order
Produced(list) == SelectSeq(list, LAMBDA c : c.type = "capsule")

\* C11: _process publishes at most one event on the knowledge topic per
\* speaker event: exactly one when _same_as or _case_insensitive_same_as
\* produced an assertion, its payload being the non-empty list of the
\* assertions produced, same-as first, without empty entries; and none when
\* neither produced one.
C11_OnePublishPerEvent ==
    /\ [](Len(idOut) <= 1)
    /\ [][(idPc = "publish" /\ idPc' = "done") =>
            IF Produced(capsule) = <<>>
            THEN idOut' = <<>>
            ELSE /\ Len(idOut') = 1
                 /\ idOut'[1].topic = "knowledge"
                 /\ idOut'[1].payload = Produced(capsule)
                 /\ idOut'[1].payload # <<>>
                 /\ \A i \in DOMAIN idOut'[1].payload :
                       idOut'[1].payload[i].type = "capsule"
                 /\ IsAssertion(capsule[1]) => idOut'[1].payload[1] = capsule[1]]_vars
    /\ [][(idPc # "publish" /\ idPc' # "idle" /\ idOut' # idOut)
            => (idOut' = <<>> /\ idPc' \in {"name_lookup", "ci_poll", "publish"})]_vars

\* C11 witness: one event with both capsules was published, the same-as
\* capsule first.
C11_Witness ==
    /\ idPc = "done"
    /\ Len(idOut) = 1
    /\ Len(idOut[1].payload) = 2
    /\ idOut[1].payload[1].subject.uri = store[evId]
    /\ idOut[1].payload[1].object.uri = store[evName]
    /\ idOut[1].payload[2].subject.uri # store[evId]

\* lower-cased and title-cased forms of the strings of the model, written out
LowerOf(str) ==
    CASE str = <<"a", "b">>           -> <<"a", "b">>
      [] str = <<"A", "b">>           -> <<"a", "b">>
      [] str = <<"c">>                -> <<"c">>
      [] str = <<"A", "b", "_", "c">> -> <<"a", "b", "_", "c">>
      [] str = <<"A", "b", "_", "C">> -> <<"a", "b", "_", "c">>
      [] str = <<"a", "b", "_", "c">> -> <<"a", "b", "_", "c">>

TitleOf(str) ==
    CASE str = <<"a", "b">>           -> <<"A", "b">>
      [] str = <<"A", "b", "_", "c">> -> <<"A", "b", "_", "C">>

IsPrefix(k, str) ==
    Len(k) <= Len(str) /\ \A i \in 1..Len(k) : k[i] = str[i]

\* C12: _case_insensitive_same_as returns an assertion if and only if the id
\* resolved to a non-empty URI within the polling attempts and the
\* lower-cased last path segment of that URI does not start with the
\* lower-cased speaker name; the subject and object URIs keep the path prefix
\* of the id URI and carry its last segment title-cased (subject) and
\* lower-cased (object), so they are equal when case is ignored.
C12_CaseInsensitiveIff ==
    [][(idPc = "ci_poll" /\ idPc' = "publish") =>
        LET r == capsule'[Len(capsule')]
            n == Len(idUri)
        IN  /\ Len(capsule') = Len(capsule) + 1
            /\ attempt <= 50
            /\ (r.type = "capsule") <=>
                  /\ idUri # <<>>
                  /\ ~IsPrefix(LowerOf(evName), LowerOf(idUri[n]))
            /\ (r.type = "capsule") =>
                  /\ r.predicate.uri = "http://www.w3.org/2002/07/owl#sameAs"
                  /\ Len(r.subject.uri) = n /\ Len(r.object.uri) = n
                  /\ \A i \in 1..(n - 1) :
                        r.subject.uri[i] = idUri[i] /\ r.object.uri[i] = idUri[i]
                  /\ r.subject.uri[n] = TitleOf(idUri[n])
                  /\ r.object.uri[n] = LowerOf(idUri[n])
                  /\ LowerOf(r.subject.uri[n]) = LowerOf(r.object.uri[n])]_vars

\* C12 witness: for the speaker "c" and the id URI w/Ab_c the assertion
\* w/Ab_C sameAs w/ab_c was returned.
C12_Witness ==
    /\ idPc = "publish"
    /\ matchCases
    /\ evName = <<"c">>
    /\ capsule[Len(capsule)].type = "capsule"
    /\ capsule[Len(capsule)].subject.uri = << <<"w">>, <<"A", "b", "_", "C">> >>
    /\ capsule[Len(capsule)].object.uri = << <<"w">>, <<"a", "b", "_", "c">> >>
    /\ idUri = << <<"w">>, <<"A", "b", "_", "c">> >>

----------------------------------------------------------------------------
(* Properties of talk.py *)

\* C8: post_a_triple, post_a_triple_label_and_type and post_a_query post the
\* capsule built from the triple to the brain and return the brain's response
\* converted to JSON; when the brain call or the conversion raises, the
\* function still returns, the JSON response it returns is None, and the two
\* post_a_triple functions still return the capsule.  Only an error raised
\* while building the capsule, before the try block, leaves the function.
C8_PostReturnsJsonOrNone ==
    tFn \in {"post_a_triple", "post_a_triple_label_and_type", "post_a_query"} =>
    /\ tPc = "raised" => (tTry = "none" /\ brainLog = <<>>)
    /\ tPc = "returned" =>
          /\ Len(brainLog) = 1
          /\ brainLog[1].capsule.triple = tTriple
          /\ brainLog[1].capsule.utterance_type =
                (IF tFn = "post_a_query" THEN "QUESTION" ELSE "STATEMENT")
          /\ brainLog[1].method =
                (IF tFn = "post_a_query" THEN "query_brain" ELSE "update")
          /\ tTry \in {"ok", "brain_raised", "convert_raised"}
          /\ tReturn[Len(tReturn)] =
                (IF tTry = "ok" THEN [type |-> "json", of |-> tResponse]
                 ELSE [type |-> "None"])
          /\ tTry = "ok" => tResponse \in Responses
          /\ IF tFn = "post_a_query"
             THEN Len(tReturn) = 1
             ELSE /\ Len(tReturn) = 2
                  /\ tReturn[1] = brainLog[1].capsule

\* C8 witness: post_a_triple_label_and_type returned the capsule and None
\* after the conversion of the brain's response had raised.
C8_Witness ==
    /\ tPc = "returned"
    /\ tFn = "post_a_triple_label_and_type"
    /\ tTry = "convert_raised"
    /\ tResponse \in Responses
    /\ tReturn = <<tCapsule, [type |-> "None"]>>

\* C17: post_a_triple_and_verbalise_throughts and
\* post_a_query_and_verbalise_answer, once the capsule is built, return a
\* reply that is not None and let no error of the brain, the conversion or
\* the replier out: the replier's reply when it produced one, otherwise a
\* phrase of ELOQUENCE.
C17_VerbaliseAlwaysReplies ==
    tFn \in {"post_a_triple_and_verbalise_throughts",
             "post_a_query_and_verbalise_answer"} =>
    /\ tPc = "raised" => (tTry = "none" /\ brainLog = <<>>)
    /\ tPc = "returned" =>
          /\ Len(brainLog) = 1
          /\ brainLog[1].capsule.triple = tTriple
          /\ brainLog[1].method =
                (IF tFn = "post_a_query_and_verbalise_answer"
                 THEN "query_brain" ELSE "update")
          /\ Len(tReturn) = 1
          /\ tReturn[1].type # "None"
          /\ IF tReplierGave.type = "reply"
             THEN tTry = "ok" /\ tReturn[1] = tReplierGave
             ELSE tReturn[1].type = "eloquence"

\* C17 witness: the replier raised after the brain had answered, and the
\* query function returned a fallback phrase.
C17_Witness ==
    /\ tPc = "returned"
    /\ tFn = "post_a_query_and_verbalise_answer"
    /\ tTry = "reply_raised"
    /\ tJson.type = "json"
    /\ tReturn[1].type = "eloquence"

\* list `part` occurs in list `whole` as a subsequence, in order
IsSubsequence(part, whole) ==
    \E f \in [1..Len(part) -> 1..Len(whole)] :
        /\ \A i \in 1..Len(part) : whole[f[i]] = part[i]
        /\ \A i, j \in 1..Len(part) : i < j => f[i] < f[j]

\* C18: when process_triple_spacy_and_reply has returned, for every triple
\* whose brain update and reply generation succeeded the returned reply_list
\* holds that triple's reply and the returned response_list holds that
\* triple's JSON response, in triple order.
C18_RepliesCollected ==
    sPc = "returned" =>
        /\ IsSubsequence([i \in 1..Len(sSucceeded) |-> sSucceeded[i].reply],
                         sReplyList)
        /\ IsSubsequence([i \in 1..Len(sSucceeded) |-> sSucceeded[i].json],
                         sResponseList)

----------------------------------------------------------------------------
(* Properties of the service lifecycle *)

\* C13: stop() on a service whose topic worker is not set (never started, or
\* already stopped) is a no-op: it raises no error and leaves the service
\* without a worker.
C13_StopWithoutWorkerIsNoop ==
    (lifeLast.op = "stop" /\ lifeLast.pre = 0)
    => /\ ~lifeLast.raised
       /\ topicWorker[lifeLast.svc] = 0

\* C14: under any sequence of start() and stop() calls, at most one topic
\* worker created by a service is running at any time, and after stop() has
\* returned no worker created by that service is running and the service
\* holds no worker reference.
C14_AtMostOneWorker ==
    /\ \A svc \in Services :
          Cardinality({w \in running : w[1] = svc}) <= 1
    /\ (lifeLast.op = "stop" /\ ~lifeLast.raised)
          => /\ {w \in running : w[1] = lifeLast.svc} = {}
             /\ topicWorker[lifeLast.svc] = 0

----------------------------------------------------------------------------
Init ==
    InitServiceInit /\ IdResolutionInit /\ TalkInit /\ LifeInit /\ SpacyInit

InitNext == ProcessEvent

InitSpec == Init /\ [][InitNext]_vars

IdNext ==
    \/ SpeakerEvent
    \/ NameLookup
    \/ Poll
    \/ SameAsReturn
    \/ CiPoll
    \/ CiReturn
    \/ Publish
    \/ ParallelStore

IdSpec == Init /\ [][IdNext]_vars

\* the topic worker's thread keeps running the handler it has entered
IdFairSpec ==
    /\ IdSpec
    /\ WF_vars(NameLookup)
    /\ WF_vars(Poll)
    /\ WF_vars(SameAsReturn)
    /\ WF_vars(CiPoll)
    /\ WF_vars(CiReturn)
    /\ WF_vars(Publish)

TalkNext ==
    \/ CallFunction
    \/ CallVerbalise
    \/ ReplierResponds
    \/ ReplierRaises
    \/ ChooseAndReturn
    \/ BrainResponds
    \/ BrainRaises
    \/ ConvertReturns
    \/ ConvertRaises
    \/ Return

TalkSpec == Init /\ [][TalkNext]_vars

LifeNext == StartService \/ StopService

LifeSpec == Init /\ [][LifeNext]_vars

SpacyNext ==
    \/ SpacyCallFunction
    \/ SpacyBrainResponds
    \/ SpacyBrainRaises
    \/ SpacyConvertReturns
    \/ SpacyConvertRaises
    \/ SpacyReplierResponds
    \/ SpacyReplierRaises
    \/ SpacyReturn

SpacySpec == Init /\ [][SpacyNext]_vars

Next == InitNext \/ IdNext \/ TalkNext \/ LifeNext \/ SpacyNext

Spec == Init /\ [][Next]_vars

=============================================================================
